---- MODULE Spec2Model ----
(***************************************************************************)
(* State-machine model of defira's tree-state and secret-access engine.   *)
(*                                                                         *)
(*   src/src/file_explorer.rs  the secret-file explorer (State, update,    *)
(*                             open_file_in_editor, the tree listing, the  *)
(*                             overlay choice of view)                     *)
(*   src/src/explorer.rs       the earlier explorer (State, update, tree   *)
(*                             listing)                                    *)
(*   src/src/main.rs           the first screen (expanded_directories)     *)
(*   src/src/crypto.rs         decrypt_with_password and CryptoError       *)
(*   src/src/password_prompt.rs, src/src/error_popup.rs   State::new       *)
(*                                                                         *)
(* The filesystem the handlers read is part of the state (fs); it is       *)
(* changed by the environment and by explorer.rs's DeleteItem.             *)
(***************************************************************************)
EXTENDS Integers, Sequences, FiniteSets, TLC

VARIABLES
    module,           \* which source module's State/update is running
    fs,               \* the filesystem: kind of each path, unreadable paths
    expanded,         \* State.expanded
    selected,         \* State.selected
    context_menu,     \* State.context_menu
    cursor_position,  \* State.cursor_position
    opened_file,      \* State.opened_file
    editor_content,   \* State.editor_content
    password_prompt,  \* State.password_prompt
    error_popup,      \* State.error_popup
    expanded_directories,  \* main.rs State.expanded_directories
    buttons,          \* the rows built by the last call of view, if any
    gpg,              \* the gpgme engine decrypt_with_password runs against
    decrypt_args,     \* the arguments of a call of decrypt_with_password
    decrypt_result,   \* what that call returned, if it has returned
    last_cursor,      \* history: the position of the last CursorMoved message
    panicked          \* the process has panicked

vars == <<module, fs, expanded, selected, context_menu, cursor_position,
          opened_file, editor_content, password_prompt, error_popup,
          expanded_directories, buttons, gpg, decrypt_args, decrypt_result,
          last_cursor, panicked>>

----------------------------------------------------------------------------
(* Bounds of the model.                                                    *)

\* Longest text the editor buffer is grown to by EditorAction messages.
MaxBufLen == 2

\* Longest plaintext, in bytes, that decrypt_with_password is applied to.
MaxPlainLen == 2

----------------------------------------------------------------------------
(* Option values.                                                          *)

None == [tag |-> "None"]
Some(v) == [tag |-> "Some", v |-> v]
IsSome(o) == o.tag = "Some"

----------------------------------------------------------------------------
(* Paths.  A file name is a sequence of characters and a path a sequence   *)
(* of file names, so that extension() and starts_with('.') are computed    *)
(* from the name as the code computes them.                                *)

nMystiko == <<"m">>
nD       == <<"d">>
nEgpg    == <<"e", ".", "g", "p", "g">>
nSgpg    == <<"s", ".", "g", "p", "g">>
nNtxt    == <<"n", ".", "t">>
nHidden  == <<".", "h">>
nX       == <<"x">>
nGone    == <<"g", ".", "t">>

Root    == <<nMystiko>>
pD      == <<nMystiko, nD>>
pE      == <<nMystiko, nD, nEgpg>>
pS      == <<nMystiko, nD, nEgpg, nSgpg>>
pN      == <<nMystiko, nNtxt>>
pH      == <<nMystiko, nHidden>>
pX      == <<nMystiko, nHidden, nX>>
pG      == <<nMystiko, nGone>>

Paths == {Root, pD, pE, pS, pN, pH, pX, pG}

\* Path::file_name: the last component.
file_name(path) == path[Len(path)]

\* Path::extension: the part of the file name after its last '.', none when
\* the name has no '.' or only a leading one.
extension(path) ==
    LET name == file_name(path)
        dots == {i \in 1..Len(name) : name[i] = "."}
    IN  IF dots = {} THEN None
        ELSE LET k == CHOOSE i \in dots : \A j \in dots : j <= i
             IN  IF k = 1 THEN None ELSE Some(SubSeq(name, k + 1, Len(name)))

GPG == <<"g", "p", "g">>

\* path.extension().is_some_and(|ext| ext == "gpg")
is_gpg(path) == extension(path) = Some(GPG)

\* filename.to_string_lossy().starts_with('.')
is_hidden(path) == Head(file_name(path)) = "."

IsPrefix(a, b) == Len(a) <= Len(b) /\ SubSeq(b, 1, Len(a)) = a

----------------------------------------------------------------------------
(* The filesystem.  kind gives what each path resolves to, denied the      *)
(* paths whose read fails with a permission error.                         *)

\* The tree under $HOME/ntech/mystiko the model starts from.
\* pG is a row whose file is gone by the time its message is handled.
InitKind ==
    [p \in Paths |-> IF p \in {Root, pD, pE, pH} THEN "dir"
                     ELSE IF p = pG THEN "none" ELSE "file"]

\* The order in which the filesystem enumerates each directory.
DirOrder(path) ==
    IF path = Root THEN <<pH, pD, pN, pG>>
    ELSE IF path = pD THEN <<pE>>
    ELSE IF path = pE THEN <<pS>>
    ELSE IF path = pH THEN <<pX>>
    ELSE <<>>

\* The text stored in each plaintext file.
FileText(path) == IF path = pN THEN <<"a">> ELSE <<"b">>

Ok(v)  == [ok |-> TRUE, v |-> v]
Err(e) == [ok |-> FALSE, e |-> e]

\* Path::is_dir
is_dir(f, path) == f.kind[path] = "dir"

\* Path::is_file
is_file(f, path) == f.kind[path] = "file"

\* fs::read_to_string
read_to_string(f, path) ==
    IF f.kind[path] = "none" THEN Err("No such file or directory")
    ELSE IF path \in f.denied THEN Err("Permission denied")
    ELSE IF f.kind[path] = "dir" THEN Err("Is a directory")
    ELSE Ok(FileText(path))

\* fs::read_dir: the entries of a directory, in enumeration order.
read_dir(f, path) ==
    IF f.kind[path] = "none" THEN Err("No such file or directory")
    ELSE IF path \in f.denied THEN Err("Permission denied")
    ELSE IF f.kind[path] = "file" THEN Err("Not a directory")
    ELSE Ok(SelectSeq(DirOrder(path), LAMBDA c : f.kind[c] # "none"))

\* The paths at or below path.
Subtree(path) == {q \in Paths : IsPrefix(path, q)}

\* fs::remove_dir_all / fs::remove_file, when it succeeds.
Removed(f, path) ==
    [f EXCEPT !.kind = [q \in Paths |->
                           IF q \in Subtree(path) THEN "none" ELSE f.kind[q]],
              !.denied = f.denied \ Subtree(path)]

----------------------------------------------------------------------------
(* Cursor positions, passwords, editor texts.                              *)

Point(x, y) == [x |-> x, y |-> y]

\* iced::Point::ORIGIN
ORIGIN == Point(0, 0)

\* The positions the cursor-move observer reports.
Points == {ORIGIN, Point(50, 80)}

\* The passwords typed into the prompt; "pw" is the passphrase the secrets
\* were encrypted with.
Passwords == {"pw", "no"}

\* The characters typed into the editor.
Typed == {"z"}

----------------------------------------------------------------------------
(* src/src/file_explorer.rs: State and update.                             *)

\* The running State as one record.
State ==
    [expanded        |-> expanded,
     selected        |-> selected,
     context_menu    |-> context_menu,
     cursor_position |-> cursor_position,
     opened_file     |-> opened_file,
     editor_content  |-> editor_content,
     password_prompt |-> password_prompt,
     error_popup     |-> error_popup]

\* impl Default for State
DefaultState ==
    [expanded        |-> {},
     selected        |-> {},
     context_menu    |-> None,
     cursor_position |-> ORIGIN,
     opened_file     |-> None,
     editor_content  |-> None,
     password_prompt |-> None,
     error_popup     |-> None]

\* password_prompt::State::new
password_prompt_new(target_path) ==
    [password |-> "", show_password |-> FALSE, target_path |-> target_path]

\* error_popup::State::new
error_popup_new(title, message) == [title |-> title, message |-> message]

\* text_editor::Content::with_text
with_text(content) == [text |-> content]

\* text_editor::Content::perform, for the insertion of one character.
perform(content, ch) == [content EXCEPT !.text = Append(@, ch)]

\* ContextMenuState { target_path, position }
ContextMenuState(target_path, position) ==
    [target_path |-> target_path, position |-> position]

\* A bug that drops the editor session when the password prompt opens.
open_file_closing_session(s, f, path) ==
    IF is_gpg(path)
    THEN [s EXCEPT !.password_prompt = Some(password_prompt_new(path)),
                   !.opened_file = None,
                   !.editor_content = None]
    ELSE LET r == read_to_string(f, path)
         IN  IF r.ok
             THEN [s EXCEPT !.opened_file = Some(path),
                            !.editor_content = Some(with_text(r.v))]
             ELSE [s EXCEPT !.opened_file = None,
                            !.editor_content = None,
                            !.error_popup = Some(error_popup_new("Error",
                                <<"Failed to read file: ", r.e>>))]

\* A bug that shows a read failure as the text of the editor.
open_file_error_as_text(s, f, path) ==
    IF is_gpg(path)
    THEN [s EXCEPT !.password_prompt = Some(password_prompt_new(path))]
    ELSE LET r == read_to_string(f, path)
         IN  IF r.ok
             THEN [s EXCEPT !.opened_file = Some(path),
                            !.editor_content = Some(with_text(r.v))]
             ELSE [s EXCEPT !.opened_file = Some(path),
                            !.editor_content = Some(with_text(
                                <<"Failed to read file: ", r.e>>))]

\* A bug that keeps the error already displayed when a read fails.
open_file_keeping_error(s, f, path) ==
    IF is_gpg(path)
    THEN [s EXCEPT !.password_prompt = Some(password_prompt_new(path))]
    ELSE LET r == read_to_string(f, path)
         IN  IF r.ok
             THEN [s EXCEPT !.opened_file = Some(path),
                            !.editor_content = Some(with_text(r.v))]
             ELSE [s EXCEPT !.opened_file = None,
                            !.editor_content = None,
                            !.error_popup =
                                IF IsSome(s.error_popup) THEN s.error_popup
                                ELSE Some(error_popup_new("Error",
                                         <<"Failed to read file: ", r.e>>))]

\* A bug that leaves the old session open when the new file cannot be read.
open_file_keeping_session(s, f, path) ==
    IF is_gpg(path)
    THEN [s EXCEPT !.password_prompt = Some(password_prompt_new(path))]
    ELSE LET r == read_to_string(f, path)
         IN  IF r.ok
             THEN [s EXCEPT !.opened_file = Some(path),
                            !.editor_content = Some(with_text(r.v))]
             ELSE [s EXCEPT !.error_popup = Some(error_popup_new("Error",
                                <<"Failed to read file: ", r.e>>))]

\* A bug that keeps the title of a file whose read failed.
open_file_title_on_error(s, f, path) ==
    IF is_gpg(path)
    THEN [s EXCEPT !.password_prompt = Some(password_prompt_new(path))]
    ELSE LET r == read_to_string(f, path)
         IN  IF r.ok
             THEN [s EXCEPT !.opened_file = Some(path),
                            !.editor_content = Some(with_text(r.v))]
             ELSE [s EXCEPT !.opened_file = Some(path),
                            !.editor_content = None,
                            !.error_popup = Some(error_popup_new("Error",
                                <<"Failed to read file: ", r.e>>))]

open_file_in_editor(s, f, path) ==
    IF is_gpg(path)
    THEN [s EXCEPT !.password_prompt = Some(password_prompt_new(path))]
    ELSE LET r == read_to_string(f, path)
         IN  IF r.ok
             THEN [s EXCEPT !.opened_file = Some(path),
                            !.editor_content = Some(with_text(r.v))]
             ELSE [s EXCEPT !.opened_file = None,
                            !.editor_content = None,
                            !.error_popup = Some(error_popup_new("Error",
                                <<"Failed to read file: ", r.e>>))]

\* A bug that expands a directory and never collapses it.
toggle_expand_only(exp, path) == exp \cup {path}

\* The expand/collapse toggle of Select, lines 91-97.
toggle_expanded(exp, path) ==
    IF path \in exp THEN exp \ {path} ELSE exp \cup {path}

\* A bug that adds the path without clearing the selection.
select_path_keeping(sel, path) == sel \cup {path}

\* The exclusive selection of Select, lines 103-107.
select_path(sel, path) ==
    IF path \notin sel THEN {path} ELSE sel

\* A bug that toggles a directory without selecting it.
Select_files_only(s, f, path) ==
    IF is_dir(f, path)
    THEN [s EXCEPT !.expanded = toggle_expanded(s.expanded, path)]
    ELSE LET s1 == open_file_in_editor(s, f, path)
         IN  [s1 EXCEPT !.selected = select_path(s1.selected, path)]

\* FileAction::Select(path)
Select(s, f, path) ==
    LET s1 == IF is_dir(f, path)
              THEN [s EXCEPT !.expanded = toggle_expanded(s.expanded, path)]
              ELSE open_file_in_editor(s, f, path)
    IN  [s1 EXCEPT !.selected = select_path(s1.selected, path)]

\* A bug that anchors every menu at the origin.
ContextMenu_at_origin(s, path) ==
    [s EXCEPT !.context_menu = Some(ContextMenuState(path, ORIGIN))]

\* FileAction::ContextMenu(path)
ContextMenu(s, path) ==
    [s EXCEPT !.context_menu = Some(ContextMenuState(path, s.cursor_position))]

\* FileAction::CloseContextMenu
CloseContextMenu(s) == [s EXCEPT !.context_menu = None]

\* A bug that leaves the context menu open after Edit.
EditItem_keeping_menu(s, f, path) == open_file_in_editor(s, f, path)

\* FileAction::EditItem(path)
EditItem(s, f, path) ==
    [open_file_in_editor(s, f, path) EXCEPT !.context_menu = None]

\* A bug that forgets the file but keeps its text.
CloseEditor_keeping_content(s) == [s EXCEPT !.opened_file = None]

\* FileAction::CloseEditor
CloseEditor(s) == [s EXCEPT !.opened_file = None, !.editor_content = None]

\* A bug that starts a session for an edit that has none to go to.
EditorAction_creating(s, ch) ==
    IF IsSome(s.editor_content)
    THEN [s EXCEPT !.editor_content = Some(perform(s.editor_content.v, ch))]
    ELSE [s EXCEPT !.editor_content = Some(with_text(<<ch>>))]

\* FileAction::EditorAction(action)
EditorAction(s, ch) ==
    IF IsSome(s.editor_content)
    THEN [s EXCEPT !.editor_content = Some(perform(s.editor_content.v, ch))]
    ELSE s

\* A bug that also collapses everything below the deleted path.
DeleteItem_pruning_below(s, path) ==
    [s EXCEPT !.selected = s.selected \ {path},
              !.expanded = s.expanded \ Subtree(path),
              !.context_menu = None]

\* A bug that closes the editor when the open file is deleted.
DeleteItem_closing_session(s, path) ==
    [s EXCEPT !.selected = s.selected \ {path},
              !.expanded = s.expanded \ {path},
              !.context_menu = None,
              !.opened_file = IF @ = Some(path) THEN None ELSE @,
              !.editor_content =
                  IF s.opened_file = Some(path) THEN None ELSE @]

\* FileAction::DeleteItem(path)
DeleteItem(s, path) ==
    [s EXCEPT !.selected = s.selected \ {path},
              !.expanded = s.expanded \ {path},
              !.context_menu = None]

\* A bug that drags the anchor of an open menu along with the cursor.
CursorMoved_dragging_menu(s, position) ==
    [s EXCEPT !.cursor_position = position,
              !.context_menu =
                  IF IsSome(@)
                  THEN Some(ContextMenuState(@.v.target_path, position))
                  ELSE @]

\* FileAction::CursorMoved(position)
CursorMoved(s, position) == [s EXCEPT !.cursor_position = position]

\* password_prompt::Message::PasswordChanged(password)
PasswordChanged(s, password) ==
    IF IsSome(s.password_prompt)
    THEN [s EXCEPT !.password_prompt =
              Some([s.password_prompt.v EXCEPT !.password = password])]
    ELSE s

\* password_prompt::Message::ToggleVisibility
ToggleVisibility(s) ==
    IF IsSome(s.password_prompt)
    THEN [s EXCEPT !.password_prompt =
              Some([s.password_prompt.v EXCEPT !.show_password = ~@])]
    ELSE s

\* A bug that leaves the prompt, and the password typed into it, in place.
Submit_keeping_prompt(s) == s

\* password_prompt::Message::Submit: the prompt is taken; nothing is decrypted.
Submit(s) == [s EXCEPT !.password_prompt = None]

\* A bug that closes the editor along with the prompt.
Cancel_closing_editor(s) ==
    [s EXCEPT !.password_prompt = None,
              !.opened_file = None,
              !.editor_content = None]

\* password_prompt::Message::Cancel
Cancel(s) == [s EXCEPT !.password_prompt = None]

\* A bug that closes the password prompt along with the error.
Dismiss_closing_prompt(s) ==
    [s EXCEPT !.error_popup = None, !.password_prompt = None]

\* error_popup::Message::Dismiss
Dismiss(s) == [s EXCEPT !.error_popup = None]

----------------------------------------------------------------------------
(* src/src/file_explorer.rs: the tree listing of view.                     *)

INDENT_LEVEL == 0

\* create_row: what a row of the list shows.
create_row(path, indent_level, is_directory, is_selected) ==
    [path |-> path, indent_level |-> indent_level,
     is_directory |-> is_directory, is_selected |-> is_selected]

\* A bug that lists the contents of every directory, expanded or not.
descend_always(entry_path, s, f) == is_dir(f, entry_path)

\* Whether the listing recurses into an entry, lines 292 and 303-305.
descend(entry_path, s, f) ==
    is_dir(f, entry_path) /\ entry_path \in s.expanded

RECURSIVE render_entries(_, _, _, _)

\* A bug that puts a row of its own into the list for a directory that
\* cannot be read.
render_directory_contents_marking(path, s, f, indent_level) ==
    LET entries == read_dir(f, path)
    IN  IF entries.ok
        THEN render_entries(entries.v, s, f, indent_level)
        ELSE <<create_row(path, indent_level, FALSE, FALSE)>>

\* render_directory_contents: the rows pushed for one directory.  A failed
\* read_dir pushes nothing.
render_directory_contents(path, s, f, indent_level) ==
    LET entries == read_dir(f, path)
    IN  IF entries.ok
        THEN render_entries(entries.v, s, f, indent_level)
        ELSE <<>>

\* The loop over the entries of a directory, lines 262-316.
render_entries(entries, s, f, indent_level) ==
    IF entries = <<>> THEN <<>>
    ELSE LET entry_path == Head(entries)
             rest == render_entries(Tail(entries), s, f, indent_level)
         IN  IF is_hidden(entry_path) THEN rest
             ELSE LET is_selected == entry_path \in s.selected
                      row == create_row(entry_path, indent_level,
                                        is_dir(f, entry_path), is_selected)
                      below ==
                          IF descend(entry_path, s, f)
                          THEN render_directory_contents(entry_path, s, f,
                                                         indent_level + 1)
                          ELSE <<>>
                  IN  <<row>> \o below \o rest

\* view: the file list, rendered from the root directory.
view_buttons(s, f) == render_directory_contents(Root, s, f, INDENT_LEVEL)

\* view_editor_panel: the title and the editor of the open file, or the
\* placeholder when the file or its buffer is missing.
view_editor_panel(s) ==
    IF IsSome(s.opened_file) /\ IsSome(s.editor_content)
    THEN [panel |-> "editor", title |-> file_name(s.opened_file.v),
          text |-> s.editor_content.v.text]
    ELSE [panel |-> "placeholder", title |-> <<>>, text |-> <<>>]

\* A bug that puts the context menu above the two modal overlays.
view_overlay_menu_first(s) ==
    IF IsSome(s.context_menu)
    THEN [overlay |-> "context_menu", state |-> s.context_menu.v]
    ELSE IF IsSome(s.error_popup)
    THEN [overlay |-> "error_popup", state |-> s.error_popup.v]
    ELSE IF IsSome(s.password_prompt)
    THEN [overlay |-> "password_prompt", state |-> s.password_prompt.v]
    ELSE [overlay |-> "none", state |-> None]

\* view: what is stacked on top of the split layout, lines 386-443.
view_overlay(s) ==
    IF IsSome(s.error_popup)
    THEN [overlay |-> "error_popup", state |-> s.error_popup.v]
    ELSE IF IsSome(s.password_prompt)
    THEN [overlay |-> "password_prompt", state |-> s.password_prompt.v]
    ELSE IF IsSome(s.context_menu)
    THEN [overlay |-> "context_menu", state |-> s.context_menu.v]
    ELSE [overlay |-> "none", state |-> None]

----------------------------------------------------------------------------
(* src/src/crypto.rs: decrypt_with_password over a model of the gpgme      *)
(* primitive.  A ciphertext records the plaintext bytes and the passphrase *)
(* it was encrypted with.                                                  *)

GPG_ERR_BAD_PASSPHRASE == 11
GPG_ERR_DECRYPT_FAILED == 152

\* A byte that is no valid UTF-8.
BadByte == "\\xff"

\* Bytes that are an OpenPGP message encrypted with a passphrase, and bytes
\* that are not.
Encrypted(plain, key) == [openpgp |-> TRUE, plain |-> plain, key |-> key]
Raw(bytes) == [openpgp |-> FALSE, plain |-> bytes, key |-> ""]

\* The bytes of each file: pS is a secret encrypted with "pw"; the other
\* files hold their text.
FileBytes(path) ==
    IF path = pS THEN Encrypted(<<"t">>, "pw") ELSE Raw(FileText(path))

\* The engine of a machine where gpg works, reporting a passphrase that
\* does not fit as GPG_ERR_BAD_PASSPHRASE.
WorkingGpg ==
    [from_protocol |-> None, set_pinentry_mode |-> None,
     bad_passphrase |-> GPG_ERR_BAD_PASSPHRASE]

\* The engines decrypt_with_password is run against: creating the context
\* succeeds or fails (150, no usable engine), setting the pinentry mode
\* succeeds or fails (60, not supported), and a passphrase that does not fit
\* is reported with one of the two codes gpg uses for it.
GpgEngines ==
    {[from_protocol |-> c, set_pinentry_mode |-> m, bad_passphrase |-> b] :
        c \in {None, Some(150)}, m \in {None, Some(60)},
        b \in {GPG_ERR_BAD_PASSPHRASE, GPG_ERR_DECRYPT_FAILED}}

\* Context::decrypt with the loopback passphrase provider; 58 is gpgme's
\* code for input that holds no OpenPGP data.
gpgme_decrypt(encrypted_data, password) ==
    IF ~encrypted_data.openpgp THEN Err(58)
    ELSE IF encrypted_data.key # password THEN Err(gpg.bad_passphrase)
    ELSE Ok(encrypted_data.plain)

\* A bug that recognises only the bad-passphrase code.
CryptoError_from_one_code(code) ==
    IF code = GPG_ERR_BAD_PASSPHRASE
    THEN [variant |-> "WrongPassword"]
    ELSE [variant |-> "GpgError", code |-> code]

\* A bug that reports every error of the primitive as a wrong password.
CryptoError_from_all_wrong(code) == [variant |-> "WrongPassword"]

\* impl From<gpgme::Error> for CryptoError
CryptoError_from(code) ==
    IF code = GPG_ERR_BAD_PASSPHRASE \/ code = GPG_ERR_DECRYPT_FAILED
    THEN [variant |-> "WrongPassword"]
    ELSE [variant |-> "GpgError", code |-> code]

\* String::from_utf8
from_utf8(bytes) ==
    IF \E i \in 1..Len(bytes) : bytes[i] = BadByte
    THEN Err([variant |-> "Utf8Error"])
    ELSE Ok(bytes)

\* A bug that leaves out the check for an empty plaintext.
decrypt_with_password_unchecked(encrypted_data, password) ==
    LET r == gpgme_decrypt(encrypted_data, password)
    IN  IF IsSome(gpg.from_protocol)
        THEN Err(CryptoError_from(gpg.from_protocol.v))
        ELSE IF IsSome(gpg.set_pinentry_mode)
        THEN Err(CryptoError_from(gpg.set_pinentry_mode.v))
        ELSE IF ~r.ok THEN Err(CryptoError_from(r.e))
        ELSE from_utf8(r.v)

\* decrypt_with_password: each of the three gpgme calls returns early with
\* the converted error; an empty plaintext is NoData; the bytes become a
\* String.
decrypt_with_password(encrypted_data, password) ==
    LET r == gpgme_decrypt(encrypted_data, password)
    IN  IF IsSome(gpg.from_protocol)
        THEN Err(CryptoError_from(gpg.from_protocol.v))
        ELSE IF IsSome(gpg.set_pinentry_mode)
        THEN Err(CryptoError_from(gpg.set_pinentry_mode.v))
        ELSE IF ~r.ok THEN Err(CryptoError_from(r.e))
        ELSE IF r.v = <<>> THEN Err([variant |-> "NoData"])
        ELSE from_utf8(r.v)

\* impl fmt::Display for CryptoError
CryptoError_fmt(e) ==
    IF e.variant = "WrongPassword" THEN <<"Incorrect password">>
    ELSE IF e.variant = "NoData" THEN <<"No data in encrypted file">>
    ELSE IF e.variant = "GpgError" THEN <<"GPG error: ", e.code>>
    ELSE <<"Invalid UTF-8 in decrypted content: ", e.variant>>

----------------------------------------------------------------------------
(* src/src/explorer.rs: the earlier explorer.  Its State has the fields    *)
(* expanded, selected, context_menu and cursor_position only; its Select   *)
(* and ContextMenu messages carry the is_dir flag the view computed.       *)

\* ContextMenuState { target_path, is_directory, position }
explorer_ContextMenuState(target_path, is_directory, position) ==
    [target_path |-> target_path, is_directory |-> is_directory,
     position |-> position]

\* FileAction::Select(path, is_dir)
explorer_Select(s, path, flag) ==
    LET s1 == IF flag
              THEN [s EXCEPT !.expanded = toggle_expanded(s.expanded, path)]
              ELSE s
    IN  [s1 EXCEPT !.selected = select_path(s1.selected, path),
                   !.context_menu = None]

\* FileAction::ContextMenu(path, is_dir)
explorer_ContextMenu(s, path, flag) ==
    [s EXCEPT !.context_menu =
        Some(explorer_ContextMenuState(path, flag, s.cursor_position))]

\* fs::remove_dir_all / fs::remove_file: fails on a missing path and on a
\* path that denies access.
remove(f, path) ==
    IF f.kind[path] = "none" THEN Err("No such file or directory")
    ELSE IF path \in f.denied THEN Err("Permission denied")
    ELSE Ok(Removed(f, path))

\* FileAction::DeleteItem(path): the State after it.
explorer_DeleteItem(s, f, path) ==
    LET result == remove(f, path)
        s1 == IF result.ok
              THEN [s EXCEPT !.selected = s.selected \ {path},
                             !.expanded = s.expanded \ {path}]
              ELSE s
    IN  [s1 EXCEPT !.context_menu = None]

\* FileAction::DeleteItem(path): the filesystem after it.
explorer_DeleteItem_fs(f, path) ==
    LET result == remove(f, path)
    IN  IF result.ok THEN result.v ELSE f

\* create_row: what a row of explorer.rs's list shows.
explorer_create_row(filename, full_path, is_directory, indent_level) ==
    [filename |-> filename, full_path |-> full_path,
     is_directory |-> is_directory, indent_level |-> indent_level]

RECURSIVE explorer_render_entries(_, _, _, _)

\* render_directory_contents: the rows pushed for one directory.  A failed
\* read_dir pushes nothing.
explorer_render_directory_contents(path, s, f, indent_level) ==
    LET entries == read_dir(f, path)
    IN  IF entries.ok
        THEN explorer_render_entries(entries.v, s, f, indent_level)
        ELSE <<>>

\* The loop over the entries of a directory, lines 175-227: every entry gets
\* a row, whatever its name.
explorer_render_entries(entries, s, f, indent_level) ==
    IF entries = <<>> THEN <<>>
    ELSE LET entry_path == Head(entries)
             is_expanded == entry_path \in s.expanded
             row == explorer_create_row(file_name(entry_path), entry_path,
                                        is_dir(f, entry_path), indent_level)
             below ==
                 IF is_dir(f, entry_path) /\ is_expanded
                 THEN explorer_render_directory_contents(entry_path, s, f,
                                                         indent_level + 1)
                 ELSE <<>>
         IN  <<row>> \o below
                 \o explorer_render_entries(Tail(entries), s, f, indent_level)

\* view: the file list, rendered from the root directory.
explorer_view_buttons(s, f) ==
    explorer_render_directory_contents(Root, s, f, INDENT_LEVEL)

----------------------------------------------------------------------------
(* src/src/main.rs: the first screen.  Directories are keyed by file name. *)

FileNames == {file_name(p) : p \in Paths}

\* FileAction::DirectoryToggle(path)
DirectoryToggle(dirs, name) ==
    IF name \in dirs THEN dirs \ {name} ELSE dirs \cup {name}

\* create_directory_row and create_file_row: what a row of main.rs shows.
create_directory_row(filename, is_expanded) ==
    [filename |-> filename, is_directory |-> TRUE, is_expanded |-> is_expanded]

create_file_row(filename) ==
    [filename |-> filename, is_directory |-> FALSE, is_expanded |-> FALSE]

RECURSIVE main_view_entries(_, _, _)

\* The loop of view over the entries of "./", lines 127-146: a row for every
\* directory and every file, whatever its name.
main_view_entries(entries, dirs, f) ==
    IF entries = <<>> THEN <<>>
    ELSE LET path == Head(entries)
             filename == file_name(path)
             rest == main_view_entries(Tail(entries), dirs, f)
         IN  IF is_dir(f, path)
             THEN <<create_directory_row(filename, filename \in dirs)>>
                      \o rest
             ELSE IF is_file(f, path)
             THEN <<create_file_row(filename)>> \o rest
             ELSE rest

\* view: fs::read_dir("./").unwrap(), line 126: the rows, or the panic of
\* unwrap when the directory cannot be read.
main_view(dirs, f) ==
    LET entries == read_dir(f, Root)
    IN  IF entries.ok
        THEN [panic |-> FALSE, rows |-> main_view_entries(entries.v, dirs, f)]
        ELSE [panic |-> TRUE, rows |-> <<>>]

----------------------------------------------------------------------------
(* The state machine.                                                      *)

Modules == {"file_explorer", "explorer", "main"}

Init ==
    /\ module \in Modules
    /\ fs = [kind |-> InitKind, denied |-> {}]
    /\ expanded = DefaultState.expanded
    /\ selected = DefaultState.selected
    /\ context_menu = DefaultState.context_menu
    /\ cursor_position = DefaultState.cursor_position
    /\ opened_file = DefaultState.opened_file
    /\ editor_content = DefaultState.editor_content
    /\ password_prompt = DefaultState.password_prompt
    /\ error_popup = DefaultState.error_popup
    /\ expanded_directories = {}
    /\ buttons = None
    /\ gpg = WorkingGpg
    /\ decrypt_args = None
    /\ decrypt_result = None
    /\ last_cursor = ORIGIN
    /\ panicked = FALSE

\* The State after a handler has run.
Apply(n) ==
    /\ expanded' = n.expanded
    /\ selected' = n.selected
    /\ context_menu' = n.context_menu
    /\ cursor_position' = n.cursor_position
    /\ opened_file' = n.opened_file
    /\ editor_content' = n.editor_content
    /\ password_prompt' = n.password_prompt
    /\ error_popup' = n.error_popup

CryptoVars == <<gpg, decrypt_args, decrypt_result>>

Env == <<module, fs, expanded_directories, buttons, CryptoVars>>

StateVars == <<expanded, selected, context_menu, cursor_position, opened_file,
               editor_content, password_prompt, error_popup>>

(* file_explorer::update, one action per message. *)

UpdateSelect(path) ==
    /\ module = "file_explorer"
    /\ Apply(Select(State, fs, path))
    /\ UNCHANGED <<Env, last_cursor, panicked>>

UpdateContextMenu(path) ==
    /\ module = "file_explorer"
    /\ Apply(ContextMenu(State, path))
    /\ UNCHANGED <<Env, last_cursor, panicked>>

UpdateCloseContextMenu ==
    /\ module = "file_explorer"
    /\ Apply(CloseContextMenu(State))
    /\ UNCHANGED <<Env, last_cursor, panicked>>

UpdateEditItem(path) ==
    /\ module = "file_explorer"
    /\ Apply(EditItem(State, fs, path))
    /\ UNCHANGED <<Env, last_cursor, panicked>>

UpdateCloseEditor ==
    /\ module = "file_explorer"
    /\ Apply(CloseEditor(State))
    /\ UNCHANGED <<Env, last_cursor, panicked>>

UpdateEditorAction(ch) ==
    /\ module = "file_explorer"
    /\ IsSome(editor_content) => Len(editor_content.v.text) < MaxBufLen
    /\ Apply(EditorAction(State, ch))
    /\ UNCHANGED <<Env, last_cursor, panicked>>

UpdateDeleteItem(path) ==
    /\ module = "file_explorer"
    /\ Apply(DeleteItem(State, path))
    /\ UNCHANGED <<Env, last_cursor, panicked>>

UpdateCursorMoved(position) ==
    /\ module = "file_explorer"
    /\ Apply(CursorMoved(State, position))
    /\ last_cursor' = position
    /\ UNCHANGED <<Env, panicked>>

UpdatePasswordChanged(password) ==
    /\ module = "file_explorer"
    /\ Apply(PasswordChanged(State, password))
    /\ UNCHANGED <<Env, last_cursor, panicked>>

UpdateToggleVisibility ==
    /\ module = "file_explorer"
    /\ Apply(ToggleVisibility(State))
    /\ UNCHANGED <<Env, last_cursor, panicked>>

UpdateSubmit ==
    /\ module = "file_explorer"
    /\ Apply(Submit(State))
    /\ UNCHANGED <<Env, last_cursor, panicked>>

UpdateCancel ==
    /\ module = "file_explorer"
    /\ Apply(Cancel(State))
    /\ UNCHANGED <<Env, last_cursor, panicked>>

UpdateDismiss ==
    /\ module = "file_explorer"
    /\ Apply(Dismiss(State))
    /\ UNCHANGED <<Env, last_cursor, panicked>>

(* explorer::update, one action per message. *)

ExplorerSelect(path, flag) ==
    /\ module = "explorer"
    /\ Apply(explorer_Select(State, path, flag))
    /\ UNCHANGED <<Env, last_cursor, panicked>>

ExplorerContextMenu(path, flag) ==
    /\ module = "explorer"
    /\ Apply(explorer_ContextMenu(State, path, flag))
    /\ UNCHANGED <<Env, last_cursor, panicked>>

ExplorerCloseContextMenu ==
    /\ module = "explorer"
    /\ Apply(CloseContextMenu(State))
    /\ UNCHANGED <<Env, last_cursor, panicked>>

ExplorerDeleteItem(path) ==
    /\ module = "explorer"
    /\ Apply(explorer_DeleteItem(State, fs, path))
    /\ fs' = explorer_DeleteItem_fs(fs, path)
    /\ UNCHANGED <<module, expanded_directories, buttons, CryptoVars,
                   last_cursor, panicked>>

ExplorerCursorMoved(position) ==
    /\ module = "explorer"
    /\ Apply(CursorMoved(State, position))
    /\ last_cursor' = position
    /\ UNCHANGED <<Env, panicked>>

(* main.rs update. *)

MainDirectoryToggle(name) ==
    /\ module = "main"
    /\ expanded_directories' = DirectoryToggle(expanded_directories, name)
    /\ UNCHANGED <<module, fs, buttons, StateVars, CryptoVars,
                   last_cursor, panicked>>

\* Edit, Delete, Clipboard, AddUser, NewFile: logged only.
MainLogOnly ==
    /\ module = "main"
    /\ UNCHANGED vars

(* The environment changes the filesystem between two messages. *)

\* A path is removed with everything below it.
EnvRemove(path) ==
    /\ fs.kind[path] # "none"
    /\ fs' = Removed(fs, path)
    /\ UNCHANGED <<module, expanded_directories, buttons, StateVars,
                   CryptoVars, last_cursor, panicked>>

\* The paths the environment removes.
EnvRemovable == {pE}

\* The paths carried by the messages: a directory, a directory whose name
\* ends in .gpg, an encrypted secret, a plaintext file, a file that is gone.
MsgPaths == {pD, pE, pS, pN, pG}

\* The rows a context menu is opened for.
MenuTargets == {pS}

Next ==
    \/ \E path \in MsgPaths : UpdateSelect(path)
    \/ \E path \in MenuTargets : UpdateContextMenu(path)
    \/ UpdateCloseContextMenu
    \/ \E path \in MsgPaths : UpdateEditItem(path)
    \/ UpdateCloseEditor
    \/ \E ch \in Typed : UpdateEditorAction(ch)
    \/ \E path \in MsgPaths : UpdateDeleteItem(path)
    \/ \E position \in Points : UpdateCursorMoved(position)
    \/ \E password \in Passwords : UpdatePasswordChanged(password)
    \/ UpdateToggleVisibility
    \/ UpdateSubmit
    \/ UpdateCancel
    \/ UpdateDismiss
    \/ \E path \in MsgPaths, flag \in BOOLEAN : ExplorerSelect(path, flag)
    \/ \E path \in MenuTargets : ExplorerContextMenu(path, is_dir(fs, path))
    \/ ExplorerCloseContextMenu
    \/ \E path \in MsgPaths : ExplorerDeleteItem(path)
    \/ \E position \in Points : ExplorerCursorMoved(position)
    \/ \E name \in FileNames : MainDirectoryToggle(name)
    \/ MainLogOnly
    \/ \E path \in EnvRemovable : EnvRemove(path)

Spec == Init /\ [][Next]_vars

----------------------------------------------------------------------------
(* The tree listing as a function of the filesystem and the State: the     *)
(* inputs are drawn in the initial state and view is applied to them.      *)

\* The filesystems the listing is applied to: the nested directory present,
\* removed or replaced by a file; directories that cannot be read.
FsSnapshots ==
    {[kind |-> k, denied |-> dn] :
        k \in {InitKind,
               Removed([kind |-> InitKind, denied |-> {}], pE).kind,
               [Removed([kind |-> InitKind, denied |-> {}], pE).kind
                    EXCEPT ![pE] = "file"]},
        dn \in SUBSET {Root, pD, pE}}

InitView ==
    /\ module = "file_explorer"
    /\ fs \in FsSnapshots
    /\ expanded \in SUBSET {Root, pD, pE, pH}
    /\ selected \in {{}, {pD}, {pS}}
    /\ context_menu = DefaultState.context_menu
    /\ cursor_position = DefaultState.cursor_position
    /\ opened_file = DefaultState.opened_file
    /\ editor_content = DefaultState.editor_content
    /\ password_prompt = DefaultState.password_prompt
    /\ error_popup = DefaultState.error_popup
    /\ expanded_directories = {}
    /\ buttons = None
    /\ gpg = WorkingGpg
    /\ decrypt_args = None
    /\ decrypt_result = None
    /\ last_cursor = ORIGIN
    /\ panicked = FALSE

\* file_explorer::view builds the file list.
View ==
    /\ module = "file_explorer"
    /\ buttons = None
    /\ buttons' = Some(view_buttons(State, fs))
    /\ UNCHANGED <<module, fs, expanded_directories, StateVars,
                   CryptoVars, last_cursor, panicked>>

NextView == View

SpecView == InitView /\ [][NextView]_vars

(* The same for the tree listing of explorer.rs. *)

InitExplorerView ==
    /\ module = "explorer"
    /\ fs \in FsSnapshots
    /\ expanded \in SUBSET {Root, pD, pE, pH}
    /\ selected \in {{}, {pD}, {pS}}
    /\ context_menu = DefaultState.context_menu
    /\ cursor_position = DefaultState.cursor_position
    /\ opened_file = DefaultState.opened_file
    /\ editor_content = DefaultState.editor_content
    /\ password_prompt = DefaultState.password_prompt
    /\ error_popup = DefaultState.error_popup
    /\ expanded_directories = {}
    /\ buttons = None
    /\ gpg = WorkingGpg
    /\ decrypt_args = None
    /\ decrypt_result = None
    /\ last_cursor = ORIGIN
    /\ panicked = FALSE

\* explorer::view builds the file list.
ExplorerView ==
    /\ module = "explorer"
    /\ buttons = None
    /\ buttons' = Some(explorer_view_buttons(State, fs))
    /\ UNCHANGED <<module, fs, expanded_directories, StateVars,
                   CryptoVars, last_cursor, panicked>>

NextExplorerView == ExplorerView

SpecExplorerView == InitExplorerView /\ [][NextExplorerView]_vars

(* The same for the list of main.rs, which reads expanded_directories. *)

InitMainView ==
    /\ module = "main"
    /\ fs \in FsSnapshots
    /\ expanded = DefaultState.expanded
    /\ selected = DefaultState.selected
    /\ context_menu = DefaultState.context_menu
    /\ cursor_position = DefaultState.cursor_position
    /\ opened_file = DefaultState.opened_file
    /\ editor_content = DefaultState.editor_content
    /\ password_prompt = DefaultState.password_prompt
    /\ error_popup = DefaultState.error_popup
    /\ expanded_directories \in SUBSET {nD, nHidden, nNtxt}
    /\ buttons = None
    /\ gpg = WorkingGpg
    /\ decrypt_args = None
    /\ decrypt_result = None
    /\ last_cursor = ORIGIN
    /\ panicked = FALSE

\* main.rs view builds the file list, or panics.
MainView ==
    /\ module = "main"
    /\ buttons = None
    /\ ~panicked
    /\ LET r == main_view(expanded_directories, fs)
       IN  /\ panicked' = r.panic
           /\ buttons' = IF r.panic THEN buttons ELSE Some(r.rows)
    /\ UNCHANGED <<module, fs, expanded_directories, StateVars, CryptoVars,
                   last_cursor>>

NextMainView == MainView

SpecMainView == InitMainView /\ [][NextMainView]_vars

----------------------------------------------------------------------------
(* decrypt_with_password as a function of its arguments and of the gpgme   *)
(* engine: they are drawn in the initial state and the function is applied *)
(* to them.                                                                *)

\* The bytes a plaintext is made of: one of a valid text, one that is not.
Bytes == {"t", BadByte}

\* The plaintexts: every byte string of at most MaxPlainLen bytes.
PlainTexts == UNION {[1..n -> Bytes] : n \in 0..MaxPlainLen}

\* The valid texts among them.
ValidText(bytes) == \A i \in 1..Len(bytes) : bytes[i] # BadByte

\* The inputs: a plaintext encrypted with a passphrase, or bytes that are
\* no OpenPGP message.
Ciphertexts ==
    {Encrypted(plain, key) : plain \in PlainTexts, key \in Passwords}
        \cup {Raw(bytes) : bytes \in PlainTexts}

InitCrypto ==
    /\ module = "crypto"
    /\ fs = [kind |-> InitKind, denied |-> {}]
    /\ expanded = DefaultState.expanded
    /\ selected = DefaultState.selected
    /\ context_menu = DefaultState.context_menu
    /\ cursor_position = DefaultState.cursor_position
    /\ opened_file = DefaultState.opened_file
    /\ editor_content = DefaultState.editor_content
    /\ password_prompt = DefaultState.password_prompt
    /\ error_popup = DefaultState.error_popup
    /\ expanded_directories = {}
    /\ buttons = None
    /\ gpg \in GpgEngines
    /\ decrypt_args \in {Some([encrypted_data |-> c, password |-> p]) :
                            c \in Ciphertexts, p \in Passwords}
    /\ decrypt_result = None
    /\ last_cursor = ORIGIN
    /\ panicked = FALSE

\* One call of crypto::decrypt_with_password.
Decrypt ==
    /\ module = "crypto"
    /\ decrypt_result = None
    /\ decrypt_result' =
           Some(decrypt_with_password(decrypt_args.v.encrypted_data,
                                      decrypt_args.v.password))
    /\ UNCHANGED <<module, fs, expanded_directories, buttons, StateVars,
                   gpg, decrypt_args, last_cursor, panicked>>

NextCrypto == Decrypt

SpecCrypto == InitCrypto /\ [][NextCrypto]_vars

----------------------------------------------------------------------------
(* The claims.                                                             *)

\* C1: selection exclusivity: in every reachable state of either explorer
\* `selected` holds at most one path.
C1_SelectionExclusive == Cardinality(selected) <= 1

\* A second selection has replaced the first: the directory pD was expanded
\* by selecting it, and the selected path is now the plaintext file pN.
C1_Witness == selected = {pN} /\ pD \in expanded

\* The rows of the rendered list showing path.
RowsOf(rows, path) == {i \in 1..Len(rows) : rows[i].path = path}

\* The non-hidden entries of directory d, as the listing would enumerate them.
ShownChildren(f, d) ==
    IF read_dir(f, d).ok
    THEN SelectSeq(read_dir(f, d).v, LAMBDA c : ~is_hidden(c))
    ELSE <<>>

\* The existing non-hidden paths directly below d.
NonHiddenChildren(f, d) ==
    {c \in Paths : /\ Len(c) = Len(d) + 1
                   /\ IsPrefix(d, c)
                   /\ f.kind[c] # "none"
                   /\ ~is_hidden(c)}

\* C2 as stated: for every directory, the root included, its non-hidden
\* children are in the rendered list if and only if the directory is in
\* `expanded`.
C2_Original ==
    IsSome(buttons) =>
        \A d \in Paths : is_dir(fs, d) =>
            \A c \in NonHiddenChildren(fs, d) :
                (RowsOf(buttons.v, c) # {}) <=> (d \in expanded)

\* C2 amended: for every directory that is itself a row of the list, its
\* non-hidden children are rows if and only if it is in `expanded` and can be
\* read, and then they follow it in pre-order, one level deeper, the first of
\* them immediately after it; the children of the root are listed whenever
\* the root can be read, whether or not the root is in `expanded`; the
\* children of a directory that is not a row are not listed.
C2_TreeVisibility ==
    IsSome(buttons) =>
        LET rows == buttons.v
            Shown(d) == d = Root \/ RowsOf(rows, d) # {}
            Open(d) == d = Root \/ d \in expanded
        IN  /\ \A d \in Paths : is_dir(fs, d) =>
                  \A c \in NonHiddenChildren(fs, d) :
                      (RowsOf(rows, c) # {}) <=>
                          (Shown(d) /\ Open(d) /\ read_dir(fs, d).ok)
            /\ \A i \in 1..Len(rows) :
                  LET d == rows[i].path
                      kids == ShownChildren(fs, d)
                  IN  (rows[i].is_directory /\ d \in expanded /\ kids # <<>>) =>
                          /\ i < Len(rows)
                          /\ rows[i + 1].path = kids[1]
                          /\ rows[i + 1].indent_level = rows[i].indent_level + 1
                          /\ \A k \in 1..Len(kids) :
                                \E j \in (i + 1)..Len(rows) :
                                    /\ rows[j].path = kids[k]
                                    /\ rows[j].indent_level
                                           = rows[i].indent_level + 1
                                    /\ \A m \in (i + 1)..j :
                                           rows[m].indent_level
                                               > rows[i].indent_level
                                    /\ k > 1 =>
                                           \E h \in (i + 1)..(j - 1) :
                                               rows[h].path = kids[k - 1]

\* The list was rendered with pE in `expanded` below the collapsed pD while
\* the root is not in `expanded`: pD is listed, pE and pS are not.
C2_Witness ==
    /\ IsSome(buttons)
    /\ expanded = {pE}
    /\ fs.kind = InitKind
    /\ RowsOf(buttons.v, pD) # {}
    /\ RowsOf(buttons.v, pE) = {}

\* C3: after DeleteItem(p), p is in neither `selected` nor `expanded`,
\* whether the filesystem delete succeeded or failed; for either explorer.
C3_DeleteCleansState ==
    \A p \in MsgPaths :
        LET n == IF module = "explorer"
                 THEN explorer_DeleteItem(State, fs, p)
                 ELSE DeleteItem(State, p)
        IN  module \in {"file_explorer", "explorer"} =>
                (p \notin n.selected /\ p \notin n.expanded)

\* C4: DeleteItem(p) performs the filesystem delete of p, and a failed delete
\* sets the error state with that failure.
C4_DeleteReportsIO ==
    \A p \in MsgPaths :
        LET n == IF module = "explorer"
                 THEN explorer_DeleteItem(State, fs, p)
                 ELSE DeleteItem(State, p)
            fsAfter == IF module = "explorer"
                       THEN explorer_DeleteItem_fs(fs, p)
                       ELSE fs
            result == remove(fs, p)
        IN  module \in {"file_explorer", "explorer"} =>
                /\ result.ok => fsAfter = result.v
                /\ ~result.ok => IsSome(n.error_popup)

\* C5: after Select(Y) with a context menu open, the context menu is None.
C5_SelectDismissesMenu ==
    IsSome(context_menu) =>
        \A p \in MsgPaths :
            /\ module = "file_explorer" =>
                   Select(State, fs, p).context_menu = None
            /\ module = "explorer" =>
                   \A flag \in BOOLEAN :
                       explorer_Select(State, p, flag).context_menu = None

\* C6: Submit with a password that decrypts the prompt's target opens the
\* target in the editor with the decrypted text and destroys the prompt.
C6_SubmitOpensSecret ==
    (module = "file_explorer" /\ IsSome(password_prompt)) =>
        LET t == password_prompt.v.target_path
            r == decrypt_with_password(FileBytes(t), password_prompt.v.password)
            n == Submit(State)
        IN  (is_file(fs, t) /\ r.ok) =>
                /\ n.opened_file = Some(t)
                /\ n.editor_content = Some(with_text(r.v))
                /\ n.password_prompt = None

\* C7: Submit with a password for which decryption yields WrongPassword
\* destroys the prompt, sets the error state with the message "Incorrect
\* password" and opens no editor session for the target.
C7_SubmitWrongPassword ==
    (module = "file_explorer" /\ IsSome(password_prompt)) =>
        LET t == password_prompt.v.target_path
            r == decrypt_with_password(FileBytes(t), password_prompt.v.password)
            n == Submit(State)
        IN  (is_file(fs, t) /\ ~r.ok /\ r.e.variant = "WrongPassword") =>
                /\ n.password_prompt = None
                /\ IsSome(n.error_popup)
                /\ n.error_popup.v.message = CryptoError_fmt(r.e)
                /\ (n.opened_file = Some(t) => opened_file = Some(t))

\* C8: Select(p) of a non-directory path with the extension gpg leaves a
\* fresh prompt for p (empty password, reveal off), whatever prompt there
\* was, and keeps opened_file and editor_content as they were.
C8_SelectSecretPrompts ==
    module = "file_explorer" =>
        \A p \in MsgPaths :
            (~is_dir(fs, p) /\ is_gpg(p)) =>
                LET n == Select(State, fs, p)
                IN  /\ n.password_prompt
                           = Some([password |-> "", show_password |-> FALSE,
                                   target_path |-> p])
                    /\ n.opened_file = opened_file
                    /\ n.editor_content = editor_content

\* The secret pS has been selected while pN was open in the editor: a fresh
\* prompt for pS stands beside the untouched session.
C8_Witness ==
    /\ module = "file_explorer"
    /\ selected = {pS}
    /\ password_prompt = Some([password |-> "", show_password |-> FALSE,
                               target_path |-> pS])
    /\ opened_file = Some(pN)
    /\ editor_content = Some([text |-> <<"a", "z">>])

\* C9: Select(p) and EditItem(p) of a non-directory path without the gpg
\* extension: a successful read opens p with the buffer holding exactly the
\* file's content and leaves the error state alone; a failed read leaves no
\* editor session and an error state carrying the I/O failure.
C9_SelectPlaintext ==
    module = "file_explorer" =>
        \A p \in MsgPaths :
            (~is_dir(fs, p) /\ ~is_gpg(p)) =>
                \A n \in {Select(State, fs, p), EditItem(State, fs, p)} :
                    LET r == read_to_string(fs, p)
                    IN  /\ r.ok =>
                               /\ n.opened_file = Some(p)
                               /\ IsSome(n.editor_content)
                               /\ n.editor_content.v.text = FileText(p)
                               /\ n.error_popup = error_popup
                        /\ ~r.ok =>
                               /\ n.opened_file = None
                               /\ n.editor_content = None
                               /\ IsSome(n.error_popup)
                               /\ n.error_popup.v.message
                                      = <<"Failed to read file: ", r.e>>

\* The read of the missing file pG failed and set the error state; pN was then
\* opened with its content and the error state was left as it was.
C9_Witness ==
    /\ error_popup = Some([title |-> "Error",
                           message |-> <<"Failed to read file: ",
                                         "No such file or directory">>])
    /\ opened_file = Some(pN)
    /\ editor_content = Some([text |-> FileText(pN)])

\* C10: two expand toggles of the same directory in a row, with the
\* filesystem unchanged in between, restore `expanded`: two Select(p) in the
\* secret-file explorer, two Select(p, true) in the earlier explorer, two
\* DirectoryToggle(p) in main.rs.
C10_ToggleTwiceRestores ==
    /\ module = "file_explorer" =>
           \A p \in MsgPaths : is_dir(fs, p) =>
               Select(Select(State, fs, p), fs, p).expanded = expanded
    /\ module = "explorer" =>
           \A p \in MsgPaths :
               explorer_Select(explorer_Select(State, p, TRUE), p, TRUE).expanded
                   = expanded
    /\ module = "main" =>
           \A name \in FileNames :
               DirectoryToggle(DirectoryToggle(expanded_directories, name), name)
                   = expanded_directories

\* Both the directory pD and the directory pE below it are expanded: toggling
\* either twice has another member of `expanded` to preserve.
C10_Witness ==
    /\ module = "file_explorer"
    /\ expanded = {pD, pE}
    /\ is_dir(fs, pD)
    /\ is_dir(fs, pE)

\* The call of decrypt_with_password has returned.
Returned == module = "crypto" /\ IsSome(decrypt_result)

\* The context was created and set to loopback pinentry.
ContextReady == gpg.from_protocol = None /\ gpg.set_pinentry_mode = None

\* The argument is a non-empty valid text T encrypted with a passphrase P.
IsEncryptedText(c) == c.openpgp /\ c.plain # <<>> /\ ValidText(c.plain)

GpgCodes == {GPG_ERR_BAD_PASSPHRASE, GPG_ERR_DECRYPT_FAILED, 58, 60, 150, 1}

\* The variant an error code of the primitive is to be converted to.
Classified(code) ==
    IF code \in {11, 152}
    THEN [variant |-> "WrongPassword"]
    ELSE [variant |-> "GpgError", code |-> code]

\* C12: decryption error classification: an error of the primitive maps to
\* WrongPassword if and only if its code is 11 or 152, every other error
\* maps to the variant carrying the primitive's own error, and a failure
\* raised inside the decrypt call is never returned as NoData or as the
\* invalid-encoding error.
C12_ErrorClassification ==
    /\ \A code \in GpgCodes : CryptoError_from(code) = Classified(code)
    /\ Returned =>
           LET r == gpgme_decrypt(decrypt_args.v.encrypted_data,
                                  decrypt_args.v.password)
           IN  (ContextReady /\ ~r.ok) =>
                   /\ decrypt_result.v = Err(Classified(r.e))
                   /\ decrypt_result.v.e.variant \notin {"NoData", "Utf8Error"}

\* Bytes that are no OpenPGP message were passed: the primitive failed with
\* its no-data code, and the call returned the GPG error carrying that code.
C12_Witness ==
    /\ Returned
    /\ ContextReady
    /\ ~decrypt_args.v.encrypted_data.openpgp
    /\ decrypt_result.v = Err([variant |-> "GpgError", code |-> 58])

\* C13: an empty plaintext is a failure: when the primitive succeeds with
\* zero bytes the call returns NoData, when it succeeds with non-empty bytes
\* that are not valid UTF-8 the call returns the invalid-encoding error, and
\* a successful result is always a non-empty valid string.
C13_EmptyPlaintextFails ==
    Returned =>
        LET r == gpgme_decrypt(decrypt_args.v.encrypted_data,
                               decrypt_args.v.password)
        IN  /\ (ContextReady /\ r.ok /\ r.v = <<>>) =>
                   decrypt_result.v = Err([variant |-> "NoData"])
            /\ (ContextReady /\ r.ok /\ r.v # <<>> /\ ~ValidText(r.v)) =>
                   decrypt_result.v = Err([variant |-> "Utf8Error"])
            /\ decrypt_result.v.ok =>
                   /\ decrypt_result.v.v # <<>>
                   /\ ValidText(decrypt_result.v.v)

\* The encryption of the empty plaintext was decrypted with its passphrase
\* and the call returned NoData.
C13_Witness ==
    /\ Returned
    /\ decrypt_args.v.encrypted_data = Encrypted(<<>>, "pw")
    /\ decrypt_args.v.password = "pw"
    /\ decrypt_result.v = Err([variant |-> "NoData"])

\* The path a row of the rendered list stands for.
RowPath(row) == IF module = "explorer" THEN row.full_path ELSE row.path

\* C14: hidden entries are never listed, in either tree listing: no row of
\* the rendered list is an entry whose name starts with '.', and no row is
\* below a hidden directory, even when that directory is in `expanded`.
C14_HiddenNeverListed ==
    IsSome(buttons) =>
        \A i \in 1..Len(buttons.v) :
            LET path == RowPath(buttons.v[i])
            IN  \A h \in Paths : ~(is_hidden(h) /\ IsPrefix(h, path))

\* The filesystem in which d is an empty directory that can be read.
AsEmptyDir(f, d) ==
    [f EXCEPT !.kind = [q \in Paths |->
                           IF q \in Subtree(d) /\ q # d
                           THEN "none" ELSE f.kind[q]],
              !.denied = f.denied \ {d}]

\* The expanded directories the listing reached and could not read.
FailedReads ==
    {d \in Paths : /\ d \in expanded
                   /\ is_dir(fs, d)
                   /\ ~read_dir(fs, d).ok
                   /\ RowsOf(buttons.v, d) # {}}

\* C15: directory read failures are isolated: when the read of an expanded
\* directory d fails during the listing, d is still listed, with no row
\* below it, and the whole list (the siblings after d, the ancestors of d
\* and the entries after them) is exactly the list that is rendered when d
\* is an empty directory.
C15_ReadFailureIsolated ==
    (module = "file_explorer" /\ IsSome(buttons)) =>
        \A d \in FailedReads :
            /\ buttons.v = view_buttons(State, AsEmptyDir(fs, d))
            /\ \A i \in RowsOf(buttons.v, d) :
                   /\ buttons.v[i].is_directory
                   /\ i < Len(buttons.v) =>
                          buttons.v[i + 1].indent_level
                              <= buttons.v[i].indent_level

\* The list was rendered with pD and pE expanded while pE could not be
\* read: pE is listed below pD, its secret pS is not, and pN, the sibling
\* after pD, is.
C15_Witness ==
    /\ module = "file_explorer"
    /\ IsSome(buttons)
    /\ fs.kind = InitKind
    /\ fs.denied = {pE}
    /\ {pD, pE} \subseteq expanded
    /\ pE \in FailedReads
    /\ RowsOf(buttons.v, pS) = {}
    /\ RowsOf(buttons.v, pN) # {}

\* C16: context menu anchor: after ContextMenu(t) the menu exists with
\* target t and the position of the most recent CursorMoved message
\* processed before it (the origin if there was none), whatever menu was
\* open before; context_menu holds at most one menu at any time.
C16_MenuAnchor ==
    /\ module = "file_explorer" =>
           /\ \A t \in MenuTargets :
                  ContextMenu(State, t).context_menu
                      = Some([target_path |-> t, position |-> last_cursor])
           /\ context_menu \in
                  {None} \cup {Some([target_path |-> t, position |-> pos]) :
                                  t \in Paths, pos \in Points}
    /\ module = "explorer" =>
           \A t \in MenuTargets, flag \in BOOLEAN :
               explorer_ContextMenu(State, t, flag).context_menu
                   = Some([target_path |-> t, is_directory |-> flag,
                           position |-> last_cursor])

\* The menu of pS was opened while the cursor was at (50, 80), and the
\* cursor has moved back to the origin since: the anchor stays.
C16_Witness ==
    /\ module = "file_explorer"
    /\ context_menu = Some([target_path |-> pS, position |-> Point(50, 80)])
    /\ last_cursor = ORIGIN
    /\ cursor_position = ORIGIN

\* What the open flow for p leaves in the fields it owns: a fresh prompt for
\* a .gpg path, the file and its text for a readable file, no session and
\* the read failure otherwise.
OpenFlowDone(n, p) ==
    IF is_gpg(p)
    THEN /\ n.password_prompt
               = Some([password |-> "", show_password |-> FALSE,
                       target_path |-> p])
         /\ n.opened_file = opened_file
         /\ n.editor_content = editor_content
         /\ n.error_popup = error_popup
    ELSE IF read_to_string(fs, p).ok
    THEN /\ n.opened_file = Some(p)
         /\ n.editor_content = Some([text |-> FileText(p)])
         /\ n.password_prompt = password_prompt
         /\ n.error_popup = error_popup
    ELSE /\ n.opened_file = None
         /\ n.editor_content = None
         /\ n.password_prompt = password_prompt
         /\ n.error_popup
               = Some([title |-> "Error",
                       message |-> <<"Failed to read file: ",
                                     read_to_string(fs, p).e>>])

\* C17: menu action dispatch closes the menu: for every state and path p,
\* after EditItem(p) the context menu is None and the open flow has run for
\* p; after DeleteItem(p) the context menu is None and p has been removed
\* from `selected` and from `expanded`.
C17_DispatchClosesMenu ==
    module = "file_explorer" =>
        \A p \in MsgPaths :
            /\ LET n == EditItem(State, fs, p)
               IN  /\ n.context_menu = None
                   /\ OpenFlowDone(n, p)
            /\ LET n == DeleteItem(State, p)
               IN  /\ n.context_menu = None
                   /\ n.selected = selected \ {p}
                   /\ n.expanded = expanded \ {p}

\* Edit was chosen for pN from the menu while pD was selected and expanded:
\* the menu is closed and pN is in the editor.
C17_Witness ==
    /\ module = "file_explorer"
    /\ context_menu = None
    /\ last_cursor = Point(50, 80)
    /\ selected = {pD}
    /\ pD \in expanded
    /\ opened_file = Some(pN)
    /\ editor_content = Some([text |-> <<"a">>])

\* C18: password prompt lifecycle: after Submit the prompt is None in every
\* case, and a Submit with no prompt present changes nothing; after Cancel
\* the prompt is None and expanded, selected, the context menu, the cursor
\* position, the editor session and the error state are unchanged.
C18_PromptLifecycle ==
    module = "file_explorer" =>
        /\ Submit(State).password_prompt = None
        /\ Submit(Submit(State)) = Submit(State)
        /\ password_prompt = None => Submit(State) = State
        /\ LET n == Cancel(State)
           IN  /\ n.password_prompt = None
               /\ n.expanded = expanded
               /\ n.selected = selected
               /\ n.context_menu = context_menu
               /\ n.cursor_position = cursor_position
               /\ n.opened_file = opened_file
               /\ n.editor_content = editor_content
               /\ n.error_popup = error_popup

\* The secret pS is selected, which opened its prompt, and the prompt is
\* gone again while the editor still holds pN and an error is displayed.
C18_Witness ==
    /\ module = "file_explorer"
    /\ selected = {pS}
    /\ password_prompt = None
    /\ opened_file = Some(pN)
    /\ IsSome(editor_content)
    /\ IsSome(error_popup)

\* C19: editor close: after CloseEditor opened_file and editor_content are
\* both None, and `selected`, `expanded`, the context menu, the password
\* prompt and the error state are unchanged.
C19_EditorClose ==
    module = "file_explorer" =>
        LET n == CloseEditor(State)
        IN  /\ n.opened_file = None
            /\ n.editor_content = None
            /\ n.selected = selected
            /\ n.expanded = expanded
            /\ n.context_menu = context_menu
            /\ n.password_prompt = password_prompt
            /\ n.error_popup = error_popup

\* pN is selected, which opened it in the editor, and there is no session
\* any more while a menu and a prompt are open and no error was raised.
C19_Witness ==
    /\ module = "file_explorer"
    /\ selected = {pN}
    /\ opened_file = None
    /\ editor_content = None
    /\ IsSome(context_menu)
    /\ IsSome(password_prompt)
    /\ error_popup = None

\* The error state a failed read of p produces.
ReadFailure(p) ==
    [title |-> "Error",
     message |-> <<"Failed to read file: ", read_to_string(fs, p).e>>]

\* C20: ErrorState is last-write-wins: error_popup holds at most one error
\* in every reachable state, and when a read fails while an error is
\* displayed, the error displayed afterwards is that of the newest failure.
C20_ErrorLastWriteWins ==
    module = "file_explorer" =>
        /\ error_popup = None
               \/ /\ error_popup.tag = "Some"
                  /\ DOMAIN error_popup.v = {"title", "message"}
        /\ \A p \in MsgPaths :
               (~is_gpg(p) /\ ~read_to_string(fs, p).ok) =>
                   /\ EditItem(State, fs, p).error_popup = Some(ReadFailure(p))
                   /\ ~is_dir(fs, p) =>
                          Select(State, fs, p).error_popup
                              = Some(ReadFailure(p))

\* The missing file pG is selected, whose read failed, and the error on
\* display is the later one of Edit on the directory pD.
C20_Witness ==
    /\ module = "file_explorer"
    /\ selected = {pG}
    /\ error_popup = Some([title |-> "Error",
                           message |-> <<"Failed to read file: ",
                                         "Is a directory">>])

\* The passwords a State holds in any of its fields.
HeldPasswords(n) ==
    {pw \in Passwords :
        \/ IsSome(n.password_prompt) /\ n.password_prompt.v.password = pw
        \/ IsSome(n.editor_content) /\ n.editor_content.v.text = <<pw>>
        \/ IsSome(n.error_popup) /\ n.error_popup.v.message = <<pw>>}

C22_ExpandedAreDirectories ==
    module \in {"file_explorer", "explorer"} =>
        \A p \in expanded : is_dir(fs, p)

\* C23: no failure aborts the process: no filesystem failure reaches a
\* panic in any view path, the listing of a directory that cannot be read
\* included.
C23_NoFailureAborts == ~panicked

\* C24: Select result: for every path p and every state, after Select(p)
\* `selected` is exactly {p}; when p is a directory its membership in
\* `expanded` has been flipped as well, so selecting the selected directory
\* again collapses or expands it while it stays selected.
C24_SelectResult ==
    module = "file_explorer" =>
        \A p \in MsgPaths :
            LET n == Select(State, fs, p)
            IN  /\ n.selected = {p}
                /\ is_dir(fs, p) => (p \in n.expanded <=> p \notin expanded)
                /\ (is_dir(fs, p) /\ selected = {p}) =>
                       LET m == Select(n, fs, p)
                       IN  m.selected = {p} /\ m.expanded = expanded

\* The directory pD was selected and expanded, pE below it was selected and
\* expanded, and pD was selected again: pD is selected and collapsed, pE
\* is still expanded.
C24_Witness ==
    /\ module = "file_explorer"
    /\ selected = {pD}
    /\ expanded = {pE}
    /\ fs.kind = InitKind
    /\ opened_file = None
    /\ password_prompt = None

\* The States the messages other than Select and DeleteItem lead to.
OtherMessages ==
    {ContextMenu(State, t) : t \in MenuTargets}
        \cup {EditItem(State, fs, p) : p \in MsgPaths}
        \cup {CursorMoved(State, pos) : pos \in Points}
        \cup {EditorAction(State, ch) : ch \in Typed}
        \cup {PasswordChanged(State, pw) : pw \in Passwords}
        \cup {CloseContextMenu(State), CloseEditor(State),
              ToggleVisibility(State), Submit(State), Cancel(State),
              Dismiss(State)}

\* C25: `expanded` is changed only by toggle and delete: ContextMenu,
\* CloseContextMenu, EditItem, CursorMoved, CloseEditor, EditorAction, the
\* PasswordPrompt and ErrorPopup messages and Select of a non-directory
\* leave `expanded` unchanged, and Select(p) and DeleteItem(p) change the
\* membership of no path other than p.
C25_ExpandedFrame ==
    module = "file_explorer" =>
        /\ \A n \in OtherMessages : n.expanded = expanded
        /\ \A p \in MsgPaths :
               /\ ~is_dir(fs, p) => Select(State, fs, p).expanded = expanded
               /\ Select(State, fs, p).expanded \ {p} = expanded \ {p}
               /\ DeleteItem(State, p).expanded \ {p} = expanded \ {p}

\* pD and pE below it are expanded, the plaintext file pN was selected and
\* is open, and a menu was opened at (50, 80): both stay expanded.
C25_Witness ==
    /\ module = "file_explorer"
    /\ expanded = {pD, pE}
    /\ selected = {pN}
    /\ opened_file = Some(pN)
    /\ context_menu = Some([target_path |-> pS, position |-> Point(50, 80)])

\* C26: a password prompt is created only for an encrypted secret: whenever
\* Select(p) or EditItem(p) creates a prompt, p is a non-directory with the
\* .gpg extension; in particular EditItem on a directory, whatever its
\* name, creates no prompt.
C26_PromptOnlyForSecret ==
    module = "file_explorer" =>
        \A p \in MsgPaths :
            \A n \in {Select(State, fs, p), EditItem(State, fs, p)} :
                (IsSome(n.password_prompt)
                     /\ n.password_prompt # password_prompt) =>
                        (~is_dir(fs, p) /\ is_gpg(p))

\* The States a new open of the non-directory p leads to.
Opens(p) == {Select(State, fs, p), EditItem(State, fs, p)}

\* C27 as stated: starting a new open, Select or EditItem of any
\* non-directory path, plaintext or encrypted, destroys the session that
\* existed before: the old file is no longer the opened file.
C27_Original ==
    (module = "file_explorer" /\ IsSome(opened_file)) =>
        \A p \in MsgPaths \ {opened_file.v} :
            ~is_dir(fs, p) =>
                \A n \in Opens(p) : n.opened_file # opened_file

\* C27: one editor session, replaced on a new open of a plaintext path:
\* opened_file holds at most one file; Select or EditItem of a non-directory
\* path without the .gpg extension ends the session that existed (the new
\* file and its text take its place when the read succeeds, no session is
\* left when it fails); Select or EditItem of a .gpg path leaves the
\* existing session as it is.
C27_SessionReplaced ==
    module = "file_explorer" =>
        /\ opened_file = None
               \/ (opened_file.tag = "Some" /\ opened_file.v \in Paths)
        /\ \A p \in MsgPaths :
               ~is_dir(fs, p) =>
                   \A n \in Opens(p) :
                       IF is_gpg(p)
                       THEN /\ n.opened_file = opened_file
                            /\ n.editor_content = editor_content
                       ELSE IF read_to_string(fs, p).ok
                       THEN /\ n.opened_file = Some(p)
                            /\ n.editor_content = Some([text |-> FileText(p)])
                       ELSE /\ n.opened_file = None
                            /\ n.editor_content = None

\* pN was opened and edited, then the missing file pG was selected: its
\* read failed and no session is left.
C27_Witness ==
    /\ module = "file_explorer"
    /\ selected = {pG}
    /\ opened_file = None
    /\ editor_content = None
    /\ error_popup = Some([title |-> "Error",
                           message |-> <<"Failed to read file: ",
                                         "No such file or directory">>])

\* The States the messages other than ErrorPopup(Dismiss) lead to, each with
\* the path its message carries (Root where it carries none).
NotDismiss ==
    {<<Select(State, fs, p), p>> : p \in MsgPaths}
        \cup {<<EditItem(State, fs, p), p>> : p \in MsgPaths}
        \cup {<<DeleteItem(State, p), p>> : p \in MsgPaths}
        \cup {<<ContextMenu(State, t), t>> : t \in MenuTargets}
        \cup {<<CursorMoved(State, pos), Root>> : pos \in Points}
        \cup {<<EditorAction(State, ch), Root>> : ch \in Typed}
        \cup {<<PasswordChanged(State, pw), Root>> : pw \in Passwords}
        \cup {<<n, Root>> : n \in {CloseContextMenu(State), CloseEditor(State),
                                    ToggleVisibility(State), Submit(State),
                                    Cancel(State)}}

\* C28: ErrorState persists until dismissed: once error_popup is set, it is
\* still set after every message except ErrorPopup(Dismiss), with the same
\* content or with that of a newer failure; after Dismiss it is None and
\* every other field is unchanged.
C28_ErrorPersists ==
    module = "file_explorer" =>
        /\ IsSome(error_popup) =>
               \A m \in NotDismiss :
                   \/ m[1].error_popup = error_popup
                   \/ /\ ~read_to_string(fs, m[2]).ok
                      /\ m[1].error_popup = Some(ReadFailure(m[2]))
        /\ LET n == Dismiss(State)
           IN  /\ n.error_popup = None
               /\ n.expanded = expanded
               /\ n.selected = selected
               /\ n.context_menu = context_menu
               /\ n.cursor_position = cursor_position
               /\ n.opened_file = opened_file
               /\ n.editor_content = editor_content
               /\ n.password_prompt = password_prompt

\* The missing file pG is selected, which raised an error, and no error is
\* displayed any more while the prompt and the menu of pS are still open.
C28_Witness ==
    /\ module = "file_explorer"
    /\ selected = {pG}
    /\ error_popup = None
    /\ IsSome(password_prompt)
    /\ IsSome(context_menu)

\* C29: editing actions need a session: an EditorAction is applied to the
\* buffer when and only when an editor session exists; with no session it
\* changes nothing; it never creates or destroys a session and never
\* changes opened_file, `selected`, `expanded`, the context menu, the
\* prompt or the error state.
C29_EditNeedsSession ==
    module = "file_explorer" =>
        \A ch \in Typed :
            LET n == EditorAction(State, ch)
            IN  /\ IF IsSome(editor_content)
                   THEN n.editor_content
                            = Some([text |-> Append(editor_content.v.text, ch)])
                   ELSE n = State
                /\ IsSome(n.editor_content) <=> IsSome(editor_content)
                /\ n.opened_file = opened_file
                /\ n.selected = selected
                /\ n.expanded = expanded
                /\ n.context_menu = context_menu
                /\ n.password_prompt = password_prompt
                /\ n.error_popup = error_popup

\* pN is selected and open, and a character was typed into its buffer.
C29_Witness ==
    /\ module = "file_explorer"
    /\ selected = {pN}
    /\ opened_file = Some(pN)
    /\ editor_content = Some([text |-> <<"a", "z">>])
    /\ password_prompt = None

\* C30: overlay priority: the view shows at most one overlay: the error
\* popup when error_popup is set; otherwise the password prompt when there
\* is one; otherwise the context menu when one is open; otherwise none.  An
\* overlay of lower priority that is present in the State is not shown.
C30_OverlayPriority ==
    module = "file_explorer" =>
        LET shown == view_overlay(State)
        IN  /\ IsSome(error_popup) =>
                   shown = [overlay |-> "error_popup",
                            state |-> error_popup.v]
            /\ (error_popup = None /\ IsSome(password_prompt)) =>
                   shown = [overlay |-> "password_prompt",
                            state |-> password_prompt.v]
            /\ (error_popup = None /\ password_prompt = None
                    /\ IsSome(context_menu)) =>
                   shown = [overlay |-> "context_menu",
                            state |-> context_menu.v]
            /\ (error_popup = None /\ password_prompt = None
                    /\ context_menu = None) =>
                   shown.overlay = "none"

\* An error, a prompt and a menu are all present, and the error popup is
\* the overlay on display.
C30_Witness ==
    /\ module = "file_explorer"
    /\ IsSome(error_popup)
    /\ IsSome(password_prompt)
    /\ IsSome(context_menu)
    /\ view_overlay(State).overlay = "error_popup"

\* C31: the editor session fields agree: in every reachable state
\* opened_file is Some exactly when editor_content is Some, so the editor
\* panel of the view shows a title exactly when it shows a buffer.
C31_SessionFieldsAgree ==
    /\ IsSome(opened_file) <=> IsSome(editor_content)
    /\ module = "file_explorer" =>
           /\ IsSome(opened_file)
                  <=> view_editor_panel(State).panel = "editor"
           /\ IsSome(editor_content)
                  <=> view_editor_panel(State).panel = "editor"

\* pN was opened, and the prompt of the secret pS, selected afterwards, is
\* open beside it: the file and its unedited text are both there.
C31_Witness ==
    /\ module = "file_explorer"
    /\ selected = {pS}
    /\ IsSome(password_prompt)
    /\ opened_file = Some(pN)
    /\ editor_content = Some([text |-> <<"a">>])

\* C32: delete leaves sessions untouched: DeleteItem(p) changes only
\* `selected`, `expanded` and the context menu; opened_file, editor_content,
\* the password prompt and the error state are unchanged, also when p is
\* the opened file or the target of the prompt, and the paths below p stay
\* in `expanded` and `selected`.
C32_DeleteKeepsSessions ==
    module = "file_explorer" =>
        \A p \in MsgPaths :
            LET n == DeleteItem(State, p)
            IN  /\ n.opened_file = opened_file
                /\ n.editor_content = editor_content
                /\ n.password_prompt = password_prompt
                /\ n.error_popup = error_popup
                /\ n.cursor_position = cursor_position
                /\ \A q \in Subtree(p) \ {p} :
                       /\ q \in n.expanded <=> q \in expanded
                       /\ q \in n.selected <=> q \in selected

\* pD was deleted while pE below it was expanded, and pN was deleted while
\* it was selected and open: nothing is selected, pE is still expanded and
\* pN is still in the editor.
C32_Witness ==
    /\ module = "file_explorer"
    /\ selected = {}
    /\ expanded = {pE}
    /\ context_menu = None
    /\ opened_file = Some(pN)
    /\ IsSome(editor_content)

\* C33: cursor moves affect only the cursor position: CursorMoved(pos)
\* sets cursor_position to pos and changes nothing else; the anchor of an
\* open context menu keeps the position captured when the menu was opened.
C33_CursorMovedFrame ==
    module \in {"file_explorer", "explorer"} =>
        \A pos \in Points :
            LET n == CursorMoved(State, pos)
            IN  /\ n.cursor_position = pos
                /\ n.context_menu = context_menu
                /\ n.expanded = expanded
                /\ n.selected = selected
                /\ n.opened_file = opened_file
                /\ n.editor_content = editor_content
                /\ n.password_prompt = password_prompt
                /\ n.error_popup = error_popup

\* The menu of pS was opened with the cursor at the origin, and the cursor
\* has moved to (50, 80) since: the anchor is still the origin.
C33_Witness ==
    /\ module = "file_explorer"
    /\ context_menu = Some([target_path |-> pS, position |-> ORIGIN])
    /\ cursor_position = Point(50, 80)
    /\ last_cursor = Point(50, 80)

====
